---- MODULE Spec2Model ----
(***************************************************************************)
(* A model of the BABE manual-seal engine loop (start_babe_manual_seal)    *)
(* and of the HeartbeatStream command decorator.                           *)
(*                                                                         *)
(* The state machines of this module:                                      *)
(*   Spec   / FairSpec    the engine loop of babe/src/lib.rs               *)
(*   HbSpec / HbFairSpec  the stream of src/heartbeat_stream.rs            *)
(*   SealSpec             the engine loop, or the BabeDigestProvider of    *)
(*                        consensus_data_provider/babe.rs                  *)
(*   NsSpec               the network state conversions of offchain api.rs *)
(*   DbSpec               the local storage calls of offchain api.rs       *)
(* Each specification leaves the other machines' variables untouched.      *)
(***************************************************************************)
EXTENDS Integers, Sequences, FiniteSets, TLC

(***************************************************************************)
(* Bounds of the model.                                                    *)
(***************************************************************************)
\* commands the command source yields to one engine instance
MaxCmds == 2
\* ready transactions the pool may hold
MaxPool == 1
\* the largest timeout and min_blocktime of the heartbeat options, in ticks
MaxTimeout == 3
\* commands the inner stream of a HeartbeatStream receives
MaxInner == 2
\* commands a HeartbeatStream emits
MaxEmit == 3
\* polls of a HeartbeatStream after it has reported the end of the stream
MaxLatePolls == 1
\* external addresses of a NetworkState
MaxAddrs == 2
\* keys of the offchain storage
MaxKeys == 2
\* values of the offchain storage
MaxValues == 2
\* HTTP request ids
MaxHttpIds == 2
\* length of the `ids` slice given to pollable_wait
MaxIds == 2
\* ids the HTTP worker reports ready
MaxReady == 3
\* the largest deadline of pollable_wait, in ticks from the call
MaxDeadline == 2

(***************************************************************************)
(* Values.                                                                 *)
(***************************************************************************)
\* Option::None of a hash (parent_hash: None); hashes are 1, 2, ...
NoHash == 0

\* id.len(): the number of inherents of the inherent data
InherentsLen == 1

\* the hashes a caller may name: the genesis block, the blocks the engine
\* can have built before the command, and a hash that no header exists for
Hashes == 1..(MaxCmds + 1)

\* crate::Error as the loop produces it: kind is the variant, msg the
\* text or the wrapped error
Err(kind, msg) == [ok |-> FALSE, kind |-> kind, msg |-> msg, hash |-> NoHash, aux |-> FALSE]

\* Ok(CreatedBlock { hash, aux })
CreatedBlock(hash, aux) == [ok |-> TRUE, kind |-> "CreatedBlock", msg |-> "", hash |-> hash, aux |-> aux]

\* Ok(()) of finalize_block
Finalized(hash) == [ok |-> TRUE, kind |-> "Finalized", msg |-> "", hash |-> hash, aux |-> FALSE]

NoResult == [ok |-> FALSE, kind |-> "NoResult", msg |-> "", hash |-> NoHash, aux |-> FALSE]

\* ImportResult's variants other than Imported
OtherImportResults == {"AlreadyInChain", "KnownBad", "UnknownParent", "MissingState"}

\* EngineCommand::SealNewBlock { create_empty, finalize, parent_hash, sender }
SealNewBlock(id, create_empty, finalize, parent_hash, has_sender) ==
    [kind |-> "SealNewBlock", id |-> id, create_empty |-> create_empty,
     finalize |-> finalize, parent_hash |-> parent_hash, has_sender |-> has_sender,
     hash |-> NoHash]

\* EngineCommand::FinalizeBlock { hash, sender, justification }
FinalizeBlock(id, hash) ==
    [kind |-> "FinalizeBlock", id |-> id, create_empty |-> FALSE,
     finalize |-> FALSE, parent_hash |-> NoHash, has_sender |-> TRUE,
     hash |-> hash]

NoCmd ==
    [kind |-> "None", id |-> 0, create_empty |-> FALSE,
     finalize |-> FALSE, parent_hash |-> NoHash, has_sender |-> FALSE,
     hash |-> NoHash]

\* what the engine did for the command in progress (history of the
\* collaborator calls of one command)
NoTrace ==
    [pool_at_check |-> -1, lookup |-> "NotTried", init_called |-> FALSE,
     epoch |-> "NotTried", claim |-> "NotTried", proposed |-> FALSE,
     extrinsics |-> -1, import_called |-> FALSE, imported |-> FALSE,
     answer |-> "NotCalled", aux |-> FALSE, n_blocks |-> 0]

\* no result was handed over yet
NoOutcome == [id |-> 0, via |-> "None", ok |-> FALSE]

\* BlockImportParams not yet built
NoParams ==
    [built |-> FALSE, origin |-> "", header_hash |-> NoHash, parent |-> NoHash,
     number |-> 0, has_body |-> FALSE, finalized |-> FALSE, fork_choice |-> "",
     intermediates |-> {}]

VARIABLES
    \* ---- the engine loop ----
    pc,           \* where the engine future is
    cur,          \* the command being processed
    n_yielded,    \* how many commands the command source has yielded
    closed,       \* the command source is exhausted: it yields None from now on
    header,       \* the parent header the block is built on (a hash)
    trace,        \* the collaborator calls made for cur
    result,       \* the result of the inner future, to be sent
    params,       \* the BlockImportParams handed to import_block for cur
    rx_alive,     \* whether the caller still holds cur's receiver
    inflight,     \* ids of the commands taken and not yet answered
    outcomes,     \* the ids of the commands send_result ran for, in order
    last_outcome, \* what send_result did for the command answered last, kept
                  \* until the next command is taken: [id, via, ok]
    blocks,       \* the client's headers: blocks[h] = [parent, number, by_best]
    best,         \* select_chain.best_chain()
    pool_ready,   \* pool.validated_pool().status().ready
    finalized,    \* the last block the finalizer has finalized (a hash)
    ret,          \* the output of the engine future
    \* ---- the heartbeat stream ----
    task,         \* the task that polls the stream: New, Busy, Polling, Parked, Ended, Panicked
    opts,         \* HeartbeatOptions
    pool_stream,  \* commands the inner stream holds, not yet yielded
    inner_closed, \* the inner stream ends once it holds no command
    inner_waker,  \* the inner stream holds the task's waker
    delay_left,   \* ticks until delay_future elapses
    delay_waker,  \* delay_future holds the task's waker
    last_heartbeat, \* Option<Instant>, as the ticks elapsed since the instant
    n_arrived,    \* commands the inner stream has received
    taken,        \* commands the inner stream has yielded to poll_next
    emitted,      \* commands poll_next has answered: [cmd, synthetic]
    last_gap,     \* ticks between the last emission and the one before it
    n_ended,      \* how many times poll_next has answered Ready(None)
    gap,          \* ticks since the last emission (or the construction)
    quiet,        \* ticks since the last emission, construction or inner yield
    \* ---- the offchain api ----
    ns_pc,        \* where the conversion of the network state is
    state,        \* the NetworkState to convert
    opaque_state, \* OpaqueNetworkState::from(state)
    converted_back_state, \* NetworkState::try_from(opaque_state)
    db,           \* the offchain storage under STORAGE_PREFIX: key -> Option<value>
    last_call,    \* the last call of the storage api and what it returned
    pw_pc,        \* pollable_wait: Off, Idle, Waiting (in block_on), Returned, Panicked
    ids,          \* the `ids` argument of pollable_wait
    deadline,     \* the `deadline` argument, as the ticks left until it
    http_ready_ids, \* the ids sent by the HTTP worker and not yet received
    n_ready,      \* how many ids the HTTP worker has sent
    discarded,    \* the ids skip_while has received and skipped in this call
    pw_ret,       \* what pollable_wait returned
    \* ---- the BabeDigestProvider ----
    dp_pc,        \* Off, or Ready: the provider was constructed
    dp_epoch,     \* what epoch_changes answers for the parent and the slot
    dp_claim,     \* whether a key of the keystore can claim the slot
    dp_inherents, \* whether the inherent data holds the babe slot number
    dp_params,    \* the BlockImportParams given to append_block_import
    dp_last       \* the last call of the provider and what it returned

engine_vars ==
    <<pc, cur, n_yielded, closed, header, trace, result, params, rx_alive, inflight,
      outcomes, last_outcome, blocks, best, pool_ready, finalized, ret>>

hb_vars ==
    <<task, opts, pool_stream, inner_closed, inner_waker, delay_left,
      delay_waker, last_heartbeat, n_arrived, taken, emitted, last_gap,
      n_ended, gap, quiet>>

pw_vars == <<pw_pc, ids, deadline, http_ready_ids, n_ready, discarded, pw_ret>>

api_vars ==
    <<ns_pc, state, opaque_state, converted_back_state, db, last_call, pw_vars>>

dp_vars == <<dp_pc, dp_epoch, dp_claim, dp_inherents, dp_params, dp_last>>

vars == <<engine_vars, hb_vars, api_vars, dp_vars>>

(***************************************************************************)
(* The engine loop.                                                        *)
(***************************************************************************)
Genesis == [parent |-> NoHash, number |-> 0, by_best |-> FALSE]

EngineInit ==
    /\ pc = "Idle"
    /\ cur = NoCmd
    /\ n_yielded = 0
    /\ closed = FALSE
    /\ header = NoHash
    /\ trace = NoTrace
    /\ result = NoResult
    /\ params = NoParams
    /\ rx_alive = FALSE
    /\ inflight = {}
    /\ outcomes = <<>>
    /\ last_outcome = NoOutcome
    /\ blocks = <<Genesis>>
    /\ best = 1
    /\ pool_ready \in 0..MaxPool
    /\ finalized = 1
    /\ ret = "Pending"

\* the commands a source can yield as its next item
Commands(id) ==
    {SealNewBlock(id, ce, fin, ph, hs) :
        ce \in BOOLEAN, fin \in BOOLEAN, ph \in {NoHash} \cup Hashes, hs \in BOOLEAN}
    \cup {FinalizeBlock(id, h) : h \in Hashes}

\* `while let Some(command) = commands_stream.next().await`: the stream is
\* polled only between two iterations of the loop body
CanTakeSpawned == pc \in {"Idle", "Seal", "Init", "Propose", "Send", "Finalize"}
CanTake == pc = "Idle"

\* commands_stream.next() yields Some(command)
NextCommand ==
    /\ CanTake
    /\ ~closed
    /\ n_yielded < MaxCmds
    /\ \E c \in Commands(n_yielded + 1) :
        /\ cur' = c
        /\ rx_alive' = c.has_sender
        /\ pc' = IF c.kind = "SealNewBlock" THEN "Seal" ELSE "Finalize"
    /\ n_yielded' = n_yielded + 1
    /\ inflight' = inflight \cup {n_yielded + 1}
    /\ last_outcome' = NoOutcome
    /\ UNCHANGED <<closed, header, trace, result, params, outcomes, blocks,
                   best, pool_ready, finalized, ret>>
    /\ UNCHANGED <<hb_vars, api_vars, dp_vars>>

\* line 128: commands_stream.next() answers None (the `while let` fails)
StreamEndedNever == FALSE
StreamEnded == closed

\* commands_stream.next() yields None: the loop ends and the future is Ok(())
StreamEnd ==
    /\ pc = "Idle"
    /\ StreamEnded
    /\ pc' = "Done"
    /\ ret' = "Ok"
    /\ UNCHANGED <<cur, n_yielded, closed, header, trace, result, params, rx_alive,
                   inflight, outcomes, last_outcome, blocks, best, pool_ready, finalized>>
    /\ UNCHANGED <<hb_vars, api_vars, dp_vars>>

\* `return Err(e)` / `?` inside the inner async block: the block's value
Fail(e, t) ==
    /\ result' = e
    /\ trace' = t
    /\ pc' = "Send"

HeaderKnown(hash) == hash \in 1..Len(blocks)

\* line 137: pool.validated_pool().status().ready == 0 && !create_empty
PoolCheckFailsNegated == pool_ready = 0 /\ cur.create_empty
PoolCheckFails == pool_ready = 0 /\ ~cur.create_empty

\* lines 144-152: the header to build on; NoHash when client.header(..)
\* answers None for the hash the command names
ParentHeaderOrBest ==
    IF cur.parent_hash # NoHash /\ HeaderKnown(cur.parent_hash)
    THEN cur.parent_hash
    ELSE best
ParentHeader ==
    IF cur.parent_hash # NoHash
    THEN IF HeaderKnown(cur.parent_hash) THEN cur.parent_hash ELSE NoHash
    ELSE best

\* what the header lookup of the command answers (history)
LookupAnswer ==
    IF cur.parent_hash = NoHash THEN "Best"
    ELSE IF HeaderKnown(cur.parent_hash) THEN "Some" ELSE "None"

\* lines 137-156: the pool check, the parent header, env.init(&header)
SealBegin ==
    /\ pc = "Seal"
    /\ LET t0 == [trace EXCEPT !.pool_at_check = pool_ready, !.n_blocks = Len(blocks)]
           t1 == [t0 EXCEPT !.lookup = LookupAnswer]
       IN
       IF PoolCheckFails
       THEN Fail(Err("EmptyTransactionPool", ""), t0) /\ UNCHANGED header
       ELSE \/ \* client.header(..)? or select_chain.best_chain()? is an Err
               /\ Fail(Err(IF cur.parent_hash # NoHash
                           THEN "BlockchainError" ELSE "ConsensusError", "header"),
                       [t0 EXCEPT !.lookup = "Err"])
               /\ UNCHANGED header
            \/ IF ParentHeader = NoHash
               THEN /\ Fail(Err("BlockNotFound", ""), t1)
                    /\ UNCHANGED header
               ELSE /\ header' = ParentHeader
                    /\ trace' = [t1 EXCEPT !.init_called = TRUE]
                    /\ pc' = "Init"
                    /\ UNCHANGED result
    /\ UNCHANGED <<cur, n_yielded, closed, params, rx_alive, inflight, outcomes, last_outcome,
                   blocks, best, pool_ready, finalized, ret>>
    /\ UNCHANGED <<hb_vars, api_vars, dp_vars>>

\* lines 91 and 159: inherents.babe_inherent_data()? fails
InherentsError == Err("InherentsError", "babe_inherent_data")

\* lines 101 and 169: the epoch lookup is an Err
EpochFetchError == Err("StringError", "failed to fetch epoch data")

\* lines 102-105 and 170: the epoch lookup answers None
NoEpochErrorAsString == Err("StringError", "InvalidAuthoritiesSet")
NoEpochError == Err("ConsensusError", "InvalidAuthoritiesSet")

\* lines 109 and 173: claim_slot answers None
SlotClaimError == Err("StringError", "failed to claim slot for authorship")

\* line 183: proposer.propose fails, the error wrapped as its text
ProposeError == Err("StringError", "propose")

\* line 196: import_block(..)? fails, the sp_consensus::Error wrapped
ImportError == Err("ConsensusError", "import_block")

\* lines 154-184: env.init resolves; the inherents, the epoch, the slot
\* claim; proposer.propose is called
SealBuild ==
    /\ pc = "Init"
    /\ \/ Fail(Err("StringError", "init"), trace)
       \/ Fail(Err("InherentsError", "create_inherent_data"), trace)
       \/ Fail(InherentsError, trace)
       \/ Fail(EpochFetchError, [trace EXCEPT !.epoch = "Err"])
       \/ Fail(NoEpochError, [trace EXCEPT !.epoch = "None"])
       \/ Fail(SlotClaimError, [trace EXCEPT !.epoch = "Some", !.claim = "None"])
       \/ /\ trace' = [trace EXCEPT !.epoch = "Some", !.claim = "Some", !.proposed = TRUE]
          /\ pc' = "Propose"
          /\ UNCHANGED result
    /\ UNCHANGED <<cur, n_yielded, closed, header, params, rx_alive, inflight,
                   outcomes, last_outcome, blocks, best, pool_ready, finalized, ret>>
    /\ UNCHANGED <<hb_vars, api_vars, dp_vars>>

\* lines 190-194: BlockImportParams::new(BlockOrigin::Own, header.clone())
\* with body, finalized and fork_choice set
ImportParamsNoForkChoice ==
    [built |-> TRUE, origin |-> "Own", header_hash |-> Len(blocks) + 1,
     parent |-> header, number |-> blocks[header].number + 1, has_body |-> TRUE,
     finalized |-> cur.finalize, fork_choice |-> "None",
     intermediates |-> {}]
ImportParams ==
    [built |-> TRUE, origin |-> "Own", header_hash |-> Len(blocks) + 1,
     parent |-> header, number |-> blocks[header].number + 1, has_body |-> TRUE,
     finalized |-> cur.finalize, fork_choice |-> "LongestChain",
     intermediates |-> {}]

\* the import pipeline's fork choice for an imported block with params p:
\* under LongestChain the block is the new best when it is higher
IsNewBest(p) == p.fork_choice = "LongestChain" /\ p.number > blocks[best].number

\* lines 196-201: the result of the seal for an answer Imported(aux)
SealOkNoAux(hash, aux) == CreatedBlock(hash, FALSE)
SealOk(hash, aux) == CreatedBlock(hash, aux)

\* line 186: proposal.block.extrinsics().len() == inherents_len && !create_empty
EmptyProposalAnyFlag(n) == n = InherentsLen
EmptyProposal(n) == n = InherentsLen /\ ~cur.create_empty

\* lines 182-201: proposer.propose resolves; the second empty check; the
\* import
SealFinish ==
    /\ pc = "Propose"
    /\ \/ /\ Fail(ProposeError, trace)
          /\ UNCHANGED <<params, blocks, best>>
       \/ \* the proposal holds n extrinsics: inherents and pool transactions
          \E n \in 0..(InherentsLen + pool_ready) :
            LET t1 == [trace EXCEPT !.extrinsics = n]
                t2 == [t1 EXCEPT !.import_called = TRUE]
                p  == ImportParams
                h  == p.header_hash
            IN
            IF EmptyProposal(n)
            THEN /\ Fail(Err("EmptyTransactionPool", ""), t1)
                 /\ UNCHANGED <<params, blocks, best>>
            ELSE /\ params' = p
                 /\ \/ /\ Fail(ImportError, [t2 EXCEPT !.answer = "Err"])
                       /\ UNCHANGED <<blocks, best>>
                    \/ \E o \in OtherImportResults :
                       /\ Fail(Err("Other", o), [t2 EXCEPT !.answer = o])
                       /\ UNCHANGED <<blocks, best>>
                    \/ /\ blocks' = Append(blocks,
                              [parent |-> p.parent, number |-> p.number,
                               by_best |-> cur.parent_hash = NoHash])
                       /\ best' = IF IsNewBest(p) THEN h ELSE best
                       /\ Fail(SealOk(h, IsNewBest(p)),
                               [t2 EXCEPT !.imported = TRUE, !.answer = "Imported",
                                          !.aux = IsNewBest(p)])
    /\ UNCHANGED <<cur, n_yielded, closed, header, rx_alive, inflight, outcomes, last_outcome,
                   pool_ready, finalized, ret>>
    /\ UNCHANGED <<hb_vars, api_vars, dp_vars>>

\* where the loop goes after the result of a command was handed over
AfterSendStops == IF result.ok THEN "Idle" ELSE "Done"
AfterSend == "Idle"

\* lines 204 and 207-215: the arms of the match that answer their command
AnsweredSealOnly(c) == c.kind = "SealNewBlock"
Answered(c) == c.kind \in {"SealNewBlock", "FinalizeBlock"}

\* rpc::send_result(&mut sender, result): the sender, if any, is taken and
\* the result sent; a send to a dropped receiver fails and is only logged
SendResult ==
    IF ~cur.has_sender THEN "Logged"
    ELSE IF rx_alive THEN "Sent" ELSE "Discarded"

\* line 204: rpc::send_result(&mut sender, future.await); lines 207-215:
\* finalize_block sends the finalizer's outcome; then the next iteration
SealSend ==
    /\ pc = "Send"
    /\ IF Answered(cur)
       THEN /\ outcomes' = Append(outcomes, cur.id)
            /\ last_outcome' = [id |-> cur.id, via |-> SendResult, ok |-> result.ok]
       ELSE UNCHANGED <<outcomes, last_outcome>>
    /\ inflight' = inflight \ {cur.id}
    /\ pc' = AfterSend
    /\ ret' = IF AfterSend = "Done" THEN "Err" ELSE ret
    \* the command, its sender and the locals of the iteration are dropped
    /\ cur' = NoCmd
    /\ header' = NoHash
    /\ trace' = NoTrace
    /\ result' = NoResult
    /\ params' = NoParams
    /\ rx_alive' = FALSE
    /\ UNCHANGED <<n_yielded, closed, blocks, best, pool_ready, finalized>>
    /\ UNCHANGED <<hb_vars, api_vars, dp_vars>>

\* lines 206-216: finalize_block(..).await: the finalizer is called
Finalize ==
    /\ pc = "Finalize"
    /\ \E r \in {Finalized(cur.hash), Err("BlockchainError", "finalize")} :
        /\ r.ok => HeaderKnown(cur.hash)
        /\ result' = r
        /\ finalized' = IF r.ok THEN cur.hash ELSE finalized
    /\ pc' = "Send"
    /\ UNCHANGED <<cur, n_yielded, closed, header, trace, params, rx_alive,
                   inflight, outcomes, last_outcome, blocks, best, pool_ready, ret>>
    /\ UNCHANGED <<hb_vars, api_vars, dp_vars>>

\* the command source is exhausted
SourceClose ==
    /\ ~closed
    /\ pc \notin {"Done", "Dropped", "Off"}
    /\ closed' = TRUE
    /\ UNCHANGED <<pc, cur, n_yielded, header, trace, result, params, rx_alive,
                   inflight, outcomes, last_outcome, blocks, best, pool_ready, finalized, ret>>
    /\ UNCHANGED <<hb_vars, api_vars, dp_vars>>

\* a transaction enters the pool or leaves it
PoolChange ==
    /\ pc \notin {"Done", "Dropped", "Off"}
    /\ \E n \in 0..MaxPool :
        /\ n # pool_ready
        /\ pool_ready' = n
    /\ UNCHANGED <<pc, cur, n_yielded, closed, header, trace, result, params,
                   rx_alive, inflight, outcomes, last_outcome, blocks, best, finalized, ret>>
    /\ UNCHANGED <<hb_vars, api_vars, dp_vars>>

\* the caller drops the receiving end of cur's response channel
DropReceiver ==
    /\ pc \in {"Seal", "Init", "Propose", "Send", "Finalize"}
    /\ rx_alive
    /\ rx_alive' = FALSE
    /\ UNCHANGED <<pc, cur, n_yielded, closed, header, trace, result, params,
                   inflight, outcomes, last_outcome, blocks, best, pool_ready, finalized, ret>>
    /\ UNCHANGED <<hb_vars, api_vars, dp_vars>>

\* the engine future is dropped while a command is being processed
DropEngine ==
    /\ pc \in {"Seal", "Init", "Propose", "Send", "Finalize"}
    /\ pc' = "Dropped"
    \* the command, its sender and the locals of the future are dropped
    /\ cur' = NoCmd
    /\ header' = NoHash
    /\ trace' = NoTrace
    /\ result' = NoResult
    /\ params' = NoParams
    /\ rx_alive' = FALSE
    /\ UNCHANGED <<n_yielded, closed, inflight, outcomes, last_outcome, blocks, best,
                   pool_ready, finalized, ret>>
    /\ UNCHANGED <<hb_vars, api_vars, dp_vars>>

\* the steps of the engine future and of the collaborators it awaits
EngineStep ==
    \/ StreamEnd
    \/ SealBegin
    \/ SealBuild
    \/ SealFinish
    \/ SealSend
    \/ Finalize

(***************************************************************************)
(* Values of the BabeDigestProvider.                                       *)
(***************************************************************************)
\* sc_consensus_babe::INTERMEDIATE_KEY
INTERMEDIATE_KEY == "babe1"

\* ViableEpochDescriptor: the epoch of the genesis, or a signaled epoch
EpochDescriptors == {"UnimportedGenesis", "Signaled"}

\* Ok(Digest { logs: vec![babe_pre_digest(predigest)] })
DigestOk == [ok |-> TRUE, kind |-> "Digest", msg |-> "babe_pre_digest", hash |-> NoHash, aux |-> FALSE]

\* Ok(())
UnitOk == [ok |-> TRUE, kind |-> "Unit", msg |-> "", hash |-> NoHash, aux |-> FALSE]

\* the provider was not called yet
NoDpCall == [op |-> "None", epoch |-> "NotTried", claim |-> "NotTried", result |-> NoResult]

\* no provider
DpOff ==
    /\ dp_pc = "Off"
    /\ dp_epoch = "None"
    /\ dp_claim = FALSE
    /\ dp_inherents = FALSE
    /\ dp_params = NoParams
    /\ dp_last = NoDpCall

(***************************************************************************)
(* Values of the offchain api.  Bytes and characters are numbers; a string *)
(* is the sequence of its ASCII codes.                                     *)
(***************************************************************************)
\* Result<T, ()>
Ok(v) == [ok |-> TRUE, val |-> v]
Error == [ok |-> FALSE, val |-> <<>>]

\* Option<Vec<u8>> of the storage api; a value is one byte here
None == [some |-> FALSE, val |-> 0]
Some(v) == [some |-> TRUE, val |-> v]

\* the multihash codes a PeerId is made of: identity and sha2-256
Identity == 0
Sha2256 == 18

\* PeerId: the multihash of a public key
PeerIds == {[code |-> c, digest |-> <<d>>] : c \in {Identity, Sha2256}, d \in 1..2}

\* the characters of the textual form of a Multiaddr
Slash == 47
Dot == 46
Colon == 58
Digit(d) == 48 + d
IsDigit(c) == c \in 48..57

\* the protocols of a Multiaddr and their names: ip4, ip6, tcp
ProtoName(proto) ==
    CASE proto = "ip4" -> <<105, 112, 52>>
      [] proto = "ip6" -> <<105, 112, 54>>
      [] proto = "tcp" -> <<116, 99, 112>>
Protos == {"ip4", "ip6", "tcp"}

\* the groups of an ip6 address (8 of 16 bits in the code, 3 of one hex
\* digit here)
Ip6Groups == 3

\* the octets, groups and ports addresses are made of
Octets == {0, 1}

\* Multiaddr: a sequence of protocol components
Multiaddrs ==
    {<<[proto |-> "ip4", arg |-> <<a, b>>], [proto |-> "tcp", arg |-> <<port>>]>> :
        a \in Octets, b \in Octets, port \in {1, 2}}
    \cup {<<[proto |-> "ip6", arg |-> g]>> : g \in [1..Ip6Groups -> Octets]}

\* Vec<Multiaddr> of at most n addresses
RECURSIVE AddrLists(_)
AddrLists(n) ==
    IF n = 0 THEN {<<>>}
    ELSE AddrLists(n - 1)
         \cup {Append(l, m) : l \in {x \in AddrLists(n - 1) : Len(x) = n - 1},
                              m \in Multiaddrs}

\* NetworkState::new(peer_id, external_addresses)
NetworkState(peer_id, external_addresses) ==
    [peer_id |-> peer_id, external_addresses |-> external_addresses]

NetworkStates == {NetworkState(p, l) : p \in PeerIds, l \in AddrLists(MaxAddrs)}

NoNetworkState == NetworkState([code |-> Identity, digest |-> <<>>], <<>>)
NoOpaque == [peer_id |-> <<>>, external_addresses |-> <<>>]

\* the storage api was not called yet
NoCall ==
    [op |-> "None", kind |-> "", key |-> 0, old |-> None, new |-> 0,
     ret |-> FALSE, got |-> None]

\* PollableId: the kind of the pollable and its id within the kind
PollableId(kind, id) == [kind |-> kind, id |-> id]

\* HttpRequestId, a number
HttpRequestIds == 1..MaxHttpIds

\* PollableId::from(HttpRequestId) and PollableId::try_from(HttpRequestId)
PollableIdFrom(x) == PollableId("Http", x)

\* the ids a caller can name: HTTP requests, and a pollable of another kind
PollableIds == {PollableIdFrom(x) : x \in HttpRequestIds} \cup {PollableId("Other", 1)}

\* the `ids` slices of up to MaxIds ids
IdSlices == UNION {[1..n -> PollableIds] : n \in 0..MaxIds}

\* Option<Timestamp>
NoDeadline == [some |-> FALSE, left |-> 0]
Deadline(n) == [some |-> TRUE, left |-> n]

\* Option<PollableId>
NoPollable == [some |-> FALSE, val |-> PollableId("", 0)]
SomePollable(id) == [some |-> TRUE, val |-> id]

\* pollable_wait is not in use
PwOff ==
    /\ pw_pc = "Off"
    /\ ids = <<>>
    /\ deadline = NoDeadline
    /\ http_ready_ids = <<>>
    /\ n_ready = 0
    /\ discarded = <<>>
    /\ pw_ret = NoPollable

\* the offchain api is not in use
ApiOff ==
    /\ PwOff
    /\ ns_pc = "Off"
    /\ state = NoNetworkState
    /\ opaque_state = NoOpaque
    /\ converted_back_state = Error
    /\ db = <<>>
    /\ last_call = NoCall

\* Option<Instant>: None, or Some(instant) kept as the ticks elapsed since
NoInstant == [some |-> FALSE, ago |-> 0]
Elapsed(n) == [some |-> TRUE, ago |-> n]

\* no heartbeat stream: the engine reads its commands from a plain source
HbOff ==
    /\ task = "Off"
    /\ opts = [timeout |-> 0, min_blocktime |-> 0, finalize |-> FALSE]
    /\ pool_stream = <<>>
    /\ inner_closed = FALSE
    /\ inner_waker = FALSE
    /\ delay_left = 0
    /\ delay_waker = FALSE
    /\ last_heartbeat = NoInstant
    /\ n_arrived = 0
    /\ taken = <<>>
    /\ emitted = <<>>
    /\ last_gap = 0
    /\ n_ended = 0
    /\ gap = 0
    /\ quiet = 0

Init == EngineInit /\ HbOff /\ ApiOff /\ DpOff

EngineNext ==
    \/ NextCommand
    \/ EngineStep
    \/ SourceClose
    \/ PoolChange
    \/ DropReceiver
    \/ DropEngine

Next == EngineNext

Spec == Init /\ [][Next]_vars

\* the engine future is polled to completion and every collaborator call
\* returns
FairSpec == Spec /\ WF_vars(EngineStep)

(***************************************************************************)
(* The heartbeat stream.  Time is counted in ticks; an instant is kept as  *)
(* the ticks elapsed since it, up to opts.timeout (no comparison of the    *)
(* stream tells larger values apart).  The stream is polled by a task: a   *)
(* poll that answers Pending parks the task until a waker it handed out    *)
(* is woken.                                                               *)
(***************************************************************************)
\* no engine: the stream is polled by a consumer that takes every command
EngineOff == EngineInit /\ pool_ready = 0

HbInit ==
    /\ EngineOff
    /\ ApiOff
    /\ DpOff
    /\ task = "New"
    /\ opts \in [timeout : 1..MaxTimeout, min_blocktime : 0..MaxTimeout,
                 finalize : BOOLEAN]
    /\ pool_stream = <<>>
    /\ inner_closed = FALSE
    /\ inner_waker = FALSE
    /\ delay_left = 0
    /\ delay_waker = FALSE
    /\ last_heartbeat = NoInstant
    /\ n_arrived = 0
    /\ taken = <<>>
    /\ emitted = <<>>
    /\ last_gap = 0
    /\ n_ended = 0
    /\ gap = 0
    /\ quiet = 0

\* the commands a caller can send into the inner stream
InnerCommands(id) ==
    {SealNewBlock(id, FALSE, FALSE, NoHash, TRUE), FinalizeBlock(id, 1)}

\* a heartbeat that names a caller
HeartbeatWithSender == SealNewBlock(0, TRUE, opts.finalize, NoHash, TRUE)
\* lines 98-103: the command a heartbeat emits
Heartbeat == SealNewBlock(0, TRUE, opts.finalize, NoHash, FALSE)

\* one more tick on an elapsed time
After(n) == IF n < opts.timeout THEN n + 1 ELSE n

\* line 51: opts.min_blocktime > opts.timeout
BadOptionsOrEqual == opts.min_blocktime >= opts.timeout
BadOptions == opts.min_blocktime > opts.timeout

\* lines 47-60: HeartbeatStream::new
New ==
    /\ task = "New"
    /\ IF BadOptions
       THEN /\ task' = "Panicked"
            /\ UNCHANGED <<delay_left, delay_waker, last_heartbeat>>
       ELSE /\ task' = "Busy"
            /\ delay_left' = opts.timeout
            /\ delay_waker' = FALSE
            /\ last_heartbeat' = NoInstant
    /\ UNCHANGED <<opts, n_ended, pool_stream, inner_closed, inner_waker, n_arrived,
                   taken, emitted, last_gap, gap, quiet>>
    /\ UNCHANGED <<engine_vars, api_vars, dp_vars>>

\* the task a woken waker schedules
Woken(t) == IF t = "Parked" THEN "Polling" ELSE t

\* a caller sends a command into the inner stream
Arrive ==
    /\ task \in {"Busy", "Polling", "Parked"}
    /\ ~inner_closed
    /\ n_arrived < MaxInner
    /\ \E c \in InnerCommands(n_arrived + 1) :
        pool_stream' = Append(pool_stream, c)
    /\ n_arrived' = n_arrived + 1
    /\ inner_waker' = FALSE
    /\ task' = IF inner_waker THEN Woken(task) ELSE task
    /\ UNCHANGED <<opts, n_ended, inner_closed, delay_left, delay_waker, last_heartbeat,
                   taken, emitted, last_gap, gap, quiet>>
    /\ UNCHANGED <<engine_vars, api_vars, dp_vars>>

\* the callers drop the sending end of the inner stream
CloseInner ==
    /\ task \in {"Busy", "Polling", "Parked"}
    /\ ~inner_closed
    /\ inner_closed' = TRUE
    /\ inner_waker' = FALSE
    /\ task' = IF inner_waker THEN Woken(task) ELSE task
    /\ UNCHANGED <<opts, n_ended, pool_stream, delay_left, delay_waker, last_heartbeat,
                   n_arrived, taken, emitted, last_gap, gap, quiet>>
    /\ UNCHANGED <<engine_vars, api_vars, dp_vars>>

\* a tick of the clock; a poll that is due happens before the next tick
Tick ==
    /\ task \in {"Busy", "Parked"}
    /\ delay_left' = IF delay_left > 0 THEN delay_left - 1 ELSE 0
    /\ last_heartbeat' = IF last_heartbeat.some
                         THEN Elapsed(After(last_heartbeat.ago))
                         ELSE last_heartbeat
    /\ gap' = After(gap)
    /\ quiet' = After(quiet)
    /\ IF delay_waker /\ delay_left <= 1
       THEN /\ delay_waker' = FALSE
            /\ task' = Woken(task)
       ELSE UNCHANGED <<delay_waker, task>>
    /\ UNCHANGED <<opts, n_ended, pool_stream, inner_closed, inner_waker, n_arrived,
                   taken, emitted, last_gap>>
    /\ UNCHANGED <<engine_vars, api_vars, dp_vars>>

\* a debounce threshold one tick short of min_blocktime
TooEarlyShort ==
    /\ last_heartbeat.some
    /\ last_heartbeat.ago + 1 < opts.min_blocktime
\* lines 71-80: the command arrived within min_blocktime of the last heartbeat
TooEarly ==
    /\ last_heartbeat.some
    /\ last_heartbeat.ago < opts.min_blocktime

\* lines 83 and 95: the duration of the new delay_future of an emission
RearmedDelayMin == opts.min_blocktime
RearmedDelay == opts.timeout

\* line 89: the inner stream, holding no command, answers Ready(None)
InnerEndedNever == FALSE
InnerEnded == inner_closed

\* lines 83-85 and 95-103: the timer is reset, the instant kept, c answered
Emit(c, synthetic) ==
    /\ delay_left' = RearmedDelay
    /\ delay_waker' = FALSE
    /\ last_heartbeat' = Elapsed(0)
    /\ emitted' = Append(emitted, [cmd |-> c, synthetic |-> synthetic])
    /\ last_gap' = gap
    /\ gap' = 0
    /\ quiet' = 0
    /\ task' = "Busy"

\* lines 67-108: HeartbeatStream::poll_next
PollNext ==
    /\ task = "Polling"
    /\ Len(emitted) < MaxEmit
    /\ IF pool_stream # <<>>
       THEN \* Poll::Ready(Some(ec))
            /\ pool_stream' = Tail(pool_stream)
            /\ taken' = Append(taken, Head(pool_stream))
            /\ UNCHANGED inner_waker
            /\ IF TooEarly
               THEN \* a new delay_future, not polled; ec is dropped
                    /\ delay_left' = opts.min_blocktime
                    /\ delay_waker' = FALSE
                    /\ task' = "Parked"
                    /\ quiet' = 0
                    /\ UNCHANGED <<last_heartbeat, emitted, last_gap, gap>>
               ELSE Emit(Head(pool_stream), FALSE)
            /\ UNCHANGED n_ended
       ELSE IF InnerEnded
       THEN \* Poll::Ready(None)
            /\ task' = "Ended"
            /\ n_ended' = n_ended + 1
            /\ UNCHANGED <<pool_stream, taken, inner_waker, delay_left,
                           delay_waker, last_heartbeat, emitted, last_gap, gap, quiet>>
       ELSE \* Poll::Pending: the inner stream keeps the waker
            /\ inner_waker' = TRUE
            /\ UNCHANGED <<pool_stream, taken, n_ended>>
            /\ IF delay_left = 0
               THEN Emit(Heartbeat, TRUE)
               ELSE /\ delay_waker' = TRUE
                    /\ task' = "Parked"
                    /\ UNCHANGED <<delay_left, last_heartbeat, emitted, last_gap, gap, quiet>>
    /\ UNCHANGED <<opts, inner_closed, n_arrived>>
    /\ UNCHANGED <<engine_vars, api_vars, dp_vars>>

\* the consumer has dealt with the command it was given and polls again
ConsumerNext ==
    /\ task = "Busy"
    /\ task' = "Polling"
    /\ UNCHANGED <<opts, n_ended, pool_stream, inner_closed, inner_waker, delay_left,
                   delay_waker, last_heartbeat, n_arrived, taken, emitted, last_gap,
                   gap, quiet>>
    /\ UNCHANGED <<engine_vars, api_vars, dp_vars>>

\* the task is polled though no waker of the stream was woken
SpuriousPoll ==
    /\ task = "Parked"
    /\ task' = "Polling"
    /\ UNCHANGED <<opts, n_ended, pool_stream, inner_closed, inner_waker, delay_left,
                   delay_waker, last_heartbeat, n_arrived, taken, emitted, last_gap,
                   gap, quiet>>
    /\ UNCHANGED <<engine_vars, api_vars, dp_vars>>

\* the stream is polled again after it has answered Ready(None); the inner
\* stream, the receiving end of a channel, answers Ready(None) again
LatePoll ==
    /\ task = "Ended"
    /\ n_ended <= MaxLatePolls
    /\ task' = "Polling"
    /\ UNCHANGED <<opts, n_ended, pool_stream, inner_closed, inner_waker, delay_left,
                   delay_waker, last_heartbeat, n_arrived, taken, emitted, last_gap,
                   gap, quiet>>
    /\ UNCHANGED <<engine_vars, api_vars, dp_vars>>

HbNext ==
    \/ New
    \/ Arrive
    \/ CloseInner
    \/ Tick
    \/ PollNext
    \/ ConsumerNext
    \/ SpuriousPoll
    \/ LatePoll

HbSpec == HbInit /\ [][HbNext]_vars

\* time passes, a task whose poll is due is polled, and the consumer comes
\* back for the next command
HbFairSpec ==
    /\ HbSpec
    /\ WF_vars(New)
    /\ WF_vars(Tick)
    /\ WF_vars(PollNext)
    /\ WF_vars(ConsumerNext)

(***************************************************************************)
(* The BabeDigestProvider.                                                 *)
(***************************************************************************)
\* no engine loop: the provider is called by a caller of its own
EngineStopped ==
    /\ pc = "Off"
    /\ cur = NoCmd
    /\ n_yielded = 0
    /\ closed = FALSE
    /\ header = NoHash
    /\ trace = NoTrace
    /\ result = NoResult
    /\ params = NoParams
    /\ rx_alive = FALSE
    /\ inflight = {}
    /\ outcomes = <<>>
    /\ last_outcome = NoOutcome
    /\ blocks = <<Genesis>>
    /\ best = 1
    /\ pool_ready = 0
    /\ finalized = 1
    /\ ret = "Pending"

\* the BlockImportParams a caller hands to append_block_import
GivenParams ==
    {[built |-> TRUE, origin |-> "Own", header_hash |-> 2, parent |-> 1,
      number |-> 1, has_body |-> TRUE, finalized |-> f, fork_choice |-> fc,
      intermediates |-> i] :
        f \in BOOLEAN, fc \in {"", "LongestChain"},
        i \in {{}, {[key |-> "other", value |-> "x"]},
               {[key |-> INTERMEDIATE_KEY, value |-> "stale"]}}}

\* lines 66-77: BabeDigestProvider::new; the epoch changes, the keystore and
\* the inherent data the calls will see
DpInit ==
    /\ EngineStopped
    /\ HbOff
    /\ ApiOff
    /\ dp_pc = "Ready"
    /\ dp_epoch \in {"Err", "None"} \cup EpochDescriptors
    /\ dp_claim \in BOOLEAN
    /\ dp_inherents \in BOOLEAN
    /\ dp_params \in GivenParams
    /\ dp_last = NoDpCall

\* lines 88-116: what create_digest does and returns
CreateDigest ==
    IF ~dp_inherents
    THEN [NoDpCall EXCEPT !.op = "create_digest", !.result = InherentsError]
    ELSE IF dp_epoch = "Err"
    THEN [NoDpCall EXCEPT !.op = "create_digest", !.epoch = "Err",
                          !.result = EpochFetchError]
    ELSE IF dp_epoch = "None"
    THEN [NoDpCall EXCEPT !.op = "create_digest", !.epoch = "None",
                          !.result = NoEpochError]
    ELSE IF ~dp_claim
    THEN [NoDpCall EXCEPT !.op = "create_digest", !.epoch = "Some",
                          !.claim = "None", !.result = SlotClaimError]
    ELSE [NoDpCall EXCEPT !.op = "create_digest", !.epoch = "Some",
                          !.claim = "Some", !.result = DigestOk]

\* BabeDigestProvider::create_digest
create_digest ==
    /\ dp_pc = "Ready"
    /\ dp_last' = CreateDigest
    /\ UNCHANGED <<dp_pc, dp_epoch, dp_claim, dp_inherents, dp_params>>
    /\ UNCHANGED <<engine_vars, hb_vars, api_vars>>

\* an insert that keeps the entry the map already has under the key
InsertIntermediateKeepOld(p, epoch_descriptor) ==
    [p EXCEPT !.intermediates =
        @ \cup {[key |-> INTERMEDIATE_KEY, value |-> epoch_descriptor]}]

\* lines 139-142: params.intermediates.insert(INTERMEDIATE_KEY, ..)
InsertIntermediate(p, epoch_descriptor) ==
    [p EXCEPT !.intermediates =
        {i \in @ : i.key # INTERMEDIATE_KEY}
        \cup {[key |-> INTERMEDIATE_KEY, value |-> epoch_descriptor]}]

\* lines 118-145: BabeDigestProvider::append_block_import
append_block_import ==
    /\ dp_pc = "Ready"
    /\ IF ~dp_inherents
       THEN /\ dp_last' = [NoDpCall EXCEPT !.op = "append_block_import",
                                           !.result = InherentsError]
            /\ UNCHANGED dp_params
       ELSE IF dp_epoch = "Err"
       THEN /\ dp_last' = [NoDpCall EXCEPT !.op = "append_block_import",
                                           !.epoch = "Err", !.result = EpochFetchError]
            /\ UNCHANGED dp_params
       ELSE IF dp_epoch = "None"
       THEN /\ dp_last' = [NoDpCall EXCEPT !.op = "append_block_import",
                                           !.epoch = "None", !.result = NoEpochError]
            /\ UNCHANGED dp_params
       ELSE /\ dp_params' = InsertIntermediate(dp_params, dp_epoch)
            /\ dp_last' = [NoDpCall EXCEPT !.op = "append_block_import",
                                           !.epoch = "Some", !.result = UnitOk]
    /\ UNCHANGED <<dp_pc, dp_epoch, dp_claim, dp_inherents>>
    /\ UNCHANGED <<engine_vars, hb_vars, api_vars>>

DpNext ==
    \/ create_digest
    \/ append_block_import

\* the engine loop, or the provider
SealInit == Init \/ DpInit

SealNext ==
    \/ NextCommand
    \/ EngineStep
    \/ SourceClose
    \/ PoolChange
    \/ DropReceiver
    \/ DropEngine
    \/ create_digest
    \/ append_block_import

SealSpec == SealInit /\ [][SealNext]_vars

(***************************************************************************)
(* The offchain api: the conversions of the network state.                 *)
(***************************************************************************)
\* Encode::encode of a Vec<u8> or a String: the compact length (one byte,
\* the length times four, for the lengths below 64), then the bytes
EncodeNoLength(bytes) == bytes
Encode(bytes) == <<4 * Len(bytes)>> \o bytes

\* <Vec<u8>>::decode(&mut &inner_vec[..]): the compact length, then that
\* many bytes; bytes that follow are left in the input
Decode(enc) ==
    IF enc = <<>> THEN Error
    ELSE LET n == enc[1] \div 4 IN
         IF enc[1] % 4 # 0 \/ Len(enc) - 1 < n THEN Error
         ELSE Ok(SubSeq(enc, 2, n + 1))

\* PeerId::into_bytes: the bytes of the multihash
PeerIdIntoBytes(peer_id) == <<peer_id.code, Len(peer_id.digest)>> \o peer_id.digest

\* PeerId::from_bytes: a multihash of a known code
PeerIdFromBytes(bytes) ==
    IF Len(bytes) < 2 THEN Error
    ELSE IF bytes[1] \notin {Identity, Sha2256} \/ bytes[2] # Len(bytes) - 2 THEN Error
    ELSE Ok([code |-> bytes[1], digest |-> SubSeq(bytes, 3, Len(bytes))])

\* the pieces of s between the separators
RECURSIVE Split(_, _)
Split(s, sep) ==
    IF s = <<>> THEN <<<<>>>>
    ELSE LET r == Split(Tail(s), sep) IN
         IF Head(s) = sep THEN <<<<>>>> \o r
         ELSE <<<<Head(s)>> \o Head(r)>> \o Tail(r)

\* the pieces with the separator between them
RECURSIVE Join(_, _)
Join(pieces, sep) ==
    IF pieces = <<>> THEN <<>>
    ELSE IF Len(pieces) = 1 THEN Head(pieces)
    ELSE Head(pieces) \o <<sep>> \o Join(Tail(pieces), sep)

\* the groups of an ip6 address as hex digits
GroupTexts(groups) == [i \in 1..Len(groups) |-> <<Digit(groups[i])>>]

\* Display of an ip6 address: the longest run of two or more zero groups,
\* the first one of that length, is written "::"
Ip6ToString(g) ==
    LET runs == {r \in (1..Ip6Groups) \X (1..Ip6Groups) :
                    /\ r[2] > r[1]
                    /\ \A i \in r[1]..r[2] : g[i] = 0}
    IN
    IF runs = {} THEN Join(GroupTexts(g), Colon)
    ELSE LET best_run == CHOOSE r \in runs :
                 \A q \in runs :
                    \/ r[2] - r[1] > q[2] - q[1]
                    \/ (r[2] - r[1] = q[2] - q[1] /\ r[1] <= q[1])
         IN Join(GroupTexts(SubSeq(g, 1, best_run[1] - 1)), Colon)
            \o <<Colon, Colon>>
            \o Join(GroupTexts(SubSeq(g, best_run[2] + 1, Ip6Groups)), Colon)

\* FromStr of an ip6 address
Ip6FromStr(text) ==
    LET pieces == Split(text, Colon)
        n      == Len(pieces)
        gaps   == {i \in 1..n : pieces[i] = <<>>}
        digit(piece) == Len(piece) = 1 /\ IsDigit(piece[1])
        value(ps) == [i \in 1..Len(ps) |-> ps[i][1] - 48]
    IN
    IF gaps = {}
    THEN IF n = Ip6Groups /\ \A i \in 1..n : digit(pieces[i])
         THEN Ok(value(pieces)) ELSE Error
    ELSE LET first == CHOOSE i \in gaps : \A j \in gaps : i <= j
             last  == CHOOSE i \in gaps : \A j \in gaps : i >= j
             head  == SubSeq(pieces, 1, first - 1)
             tail  == SubSeq(pieces, last + 1, n)
         IN
         IF /\ \A i \in first..last : i \in gaps
            /\ last > first \/ (first > 1 /\ last < n)
            /\ first = 1 => last >= 2
            /\ last = n => first <= n - 1
            /\ last - first <= 2
            /\ \A i \in 1..Len(head) : digit(head[i])
            /\ \A i \in 1..Len(tail) : digit(tail[i])
            /\ Len(head) + Len(tail) < Ip6Groups
         THEN Ok(value(head)
                 \o [i \in 1..(Ip6Groups - Len(head) - Len(tail)) |-> 0]
                 \o value(tail))
         ELSE Error

\* the text of the argument of a component
ArgToString(c) ==
    CASE c.proto = "ip4" -> <<Digit(c.arg[1]), Dot, Digit(c.arg[2])>>
      [] c.proto = "tcp" -> <<Digit(c.arg[1])>>
      [] c.proto = "ip6" -> Ip6ToString(c.arg)

\* the argument of a component of protocol proto, from its text
ArgFromStr(proto, text) ==
    CASE proto = "ip4" ->
            IF Len(text) = 3 /\ text[2] = Dot /\ IsDigit(text[1]) /\ IsDigit(text[3])
            THEN Ok(<<text[1] - 48, text[3] - 48>>) ELSE Error
      [] proto = "tcp" ->
            IF Len(text) = 1 /\ IsDigit(text[1])
            THEN Ok(<<text[1] - 48>>) ELSE Error
      [] proto = "ip6" -> Ip6FromStr(text)

\* multiaddr.to_string(): "/" name "/" argument for every component
RECURSIVE MultiaddrToString(_)
MultiaddrToString(m) ==
    IF m = <<>> THEN <<>>
    ELSE <<Slash>> \o ProtoName(Head(m).proto) \o <<Slash>> \o ArgToString(Head(m))
         \o MultiaddrToString(Tail(m))

\* the components of the pieces of a textual Multiaddr
RECURSIVE ParsePieces(_)
ParsePieces(pieces) ==
    IF pieces = <<>> THEN Ok(<<>>)
    ELSE LET names == {q \in Protos : ProtoName(q) = Head(pieces)} IN
         IF names = {} \/ Len(pieces) < 2 THEN Error
         ELSE LET proto == CHOOSE q \in names : TRUE
                  arg   == ArgFromStr(proto, pieces[2])
                  rest  == ParsePieces(Tail(Tail(pieces)))
              IN IF arg.ok /\ rest.ok
                 THEN Ok(<<[proto |-> proto, arg |-> arg.val]>> \o rest.val)
                 ELSE Error

\* Multiaddr::from_str
MultiaddrFromStr(str) ==
    IF str = <<>> THEN Ok(<<>>)
    ELSE LET pieces == Split(str, Slash) IN
         IF Head(pieces) # <<>> THEN Error ELSE ParsePieces(Tail(pieces))

\* String::from_utf8 of ASCII bytes
FromUtf8(bytes) ==
    IF \A i \in 1..Len(bytes) : bytes[i] < 128 THEN Ok(bytes) ELSE Error

\* lines 236-255: impl From<NetworkState> for OpaqueNetworkState
OpaqueFrom(st) ==
    [peer_id |-> Encode(PeerIdIntoBytes(st.peer_id)),
     external_addresses |->
        [i \in 1..Len(st.external_addresses) |->
            Encode(MultiaddrToString(st.external_addresses[i]))]]

\* lines 268-274: one OpaqueMultiaddr back to a Multiaddr
AddrFromOpaque(enc_multiaddr) ==
    LET bytes == Decode(enc_multiaddr) IN
    IF ~bytes.ok THEN Error
    ELSE LET multiaddr_str == FromUtf8(bytes.val) IN
         IF ~multiaddr_str.ok THEN Error
         ELSE MultiaddrFromStr(multiaddr_str.val)

\* lines 257-283: impl TryFrom<OpaqueNetworkState> for NetworkState
TryFromOpaque(o) ==
    LET bytes == Decode(o.peer_id) IN
    IF ~bytes.ok THEN Error
    ELSE LET peer_id == PeerIdFromBytes(bytes.val) IN
         IF ~peer_id.ok THEN Error
         ELSE LET addrs == [i \in 1..Len(o.external_addresses) |->
                               AddrFromOpaque(o.external_addresses[i])]
              IN IF \E i \in 1..Len(addrs) : ~addrs[i].ok THEN Error
                 ELSE Ok(NetworkState(peer_id.val,
                                      [i \in 1..Len(addrs) |-> addrs[i].val]))

\* no storage: only the network state is converted
DbOff == db = <<>> /\ last_call = NoCall

NsInit ==
    /\ EngineOff
    /\ HbOff
    /\ DbOff
    /\ PwOff
    /\ DpOff
    /\ ns_pc = "Given"
    /\ state \in NetworkStates
    /\ opaque_state = NoOpaque
    /\ converted_back_state = Error

\* OpaqueNetworkState::from(state.clone())
From ==
    /\ ns_pc = "Given"
    /\ opaque_state' = OpaqueFrom(state)
    /\ ns_pc' = "Opaque"
    /\ UNCHANGED <<state, converted_back_state, db, last_call, pw_vars>>
    /\ UNCHANGED <<engine_vars, hb_vars, dp_vars>>

\* an OpaqueNetworkState that is not the image of a NetworkState: the
\* encoding of the peer id, or of the first address, lacks its last byte
Foreign ==
    /\ ns_pc = "Given"
    /\ LET o == OpaqueFrom(state)
           cut(e) == SubSeq(e, 1, Len(e) - 1)
       IN \/ opaque_state' = [o EXCEPT !.peer_id = cut(@)]
          \/ /\ o.external_addresses # <<>>
             /\ opaque_state' = [o EXCEPT !.external_addresses[1] = cut(@)]
    /\ ns_pc' = "Foreign"
    /\ UNCHANGED <<state, converted_back_state, db, last_call, pw_vars>>
    /\ UNCHANGED <<engine_vars, hb_vars, dp_vars>>

\* NetworkState::try_from(opaque_state)
TryFrom ==
    /\ ns_pc \in {"Opaque", "Foreign"}
    /\ converted_back_state' = TryFromOpaque(opaque_state)
    /\ ns_pc' = IF ns_pc = "Opaque" THEN "Back" ELSE "ForeignBack"
    /\ UNCHANGED <<state, opaque_state, db, last_call, pw_vars>>
    /\ UNCHANGED <<engine_vars, hb_vars, dp_vars>>

NsNext ==
    \/ From
    \/ Foreign
    \/ TryFrom

NsSpec == NsInit /\ [][NsNext]_vars

(***************************************************************************)
(* The offchain api: the local storage.                                    *)
(***************************************************************************)
Keys == 1..MaxKeys
Values == 1..MaxValues
Kinds == {"PERSISTENT", "LOCAL"}

\* OffchainStorage::get(STORAGE_PREFIX, key)
DbGet(d, key) == d[key]

\* OffchainStorage::set(STORAGE_PREFIX, key, value)
DbSet(d, key, value) == [d EXCEPT ![key] = Some(value)]

\* OffchainStorage::remove(STORAGE_PREFIX, key)
DbRemove(d, key) == [d EXCEPT ![key] = None]

\* OffchainStorage::compare_and_set(STORAGE_PREFIX, key, old_value, new_value):
\* the value is set when the value stored equals old_value
DbCompareAndSet(d, key, old_value, new_value) ==
    IF DbGet(d, key) = old_value
    THEN [ret |-> TRUE, db |-> DbSet(d, key, new_value)]
    ELSE [ret |-> FALSE, db |-> d]

\* no conversion: only the storage is used
NsOff ==
    /\ ns_pc = "Off"
    /\ state = NoNetworkState
    /\ opaque_state = NoOpaque
    /\ converted_back_state = Error

DbInit ==
    /\ EngineOff
    /\ HbOff
    /\ NsOff
    /\ PwOff
    /\ DpOff
    /\ db = [k \in Keys |-> None]
    /\ last_call = NoCall

\* lines 102-107: Api::local_storage_set
local_storage_set ==
    \E kind \in Kinds, key \in Keys, value \in Values :
        /\ db' = IF kind = "PERSISTENT" THEN DbSet(db, key, value) ELSE db
        /\ last_call' = [NoCall EXCEPT !.op = "set", !.kind = kind, !.key = key,
                                       !.new = value]
        /\ UNCHANGED <<ns_pc, state, opaque_state, converted_back_state, pw_vars>>
        /\ UNCHANGED <<engine_vars, hb_vars, dp_vars>>

\* lines 109-114: Api::local_storage_clear
local_storage_clear ==
    \E kind \in Kinds, key \in Keys :
        /\ db' = IF kind = "PERSISTENT" THEN DbRemove(db, key) ELSE db
        /\ last_call' = [NoCall EXCEPT !.op = "clear", !.kind = kind, !.key = key]
        /\ UNCHANGED <<ns_pc, state, opaque_state, converted_back_state, pw_vars>>
        /\ UNCHANGED <<engine_vars, hb_vars, dp_vars>>

\* lines 122-128: the match on kind of local_storage_compare_and_set; LOCAL
\* is unavailable_yet: bool::default()
StorageCompareAndSetUnavailable(d, kind, key, old_value, new_value) ==
    [ret |-> FALSE, db |-> d]
StorageCompareAndSet(d, kind, key, old_value, new_value) ==
    IF kind = "PERSISTENT"
    THEN DbCompareAndSet(d, key, old_value, new_value)
    ELSE [ret |-> FALSE, db |-> d]

\* lines 116-129: Api::local_storage_compare_and_set
local_storage_compare_and_set ==
    \E kind \in Kinds, key \in Keys,
       old_value \in {None} \cup {Some(v) : v \in Values}, new_value \in Values :
        LET r == StorageCompareAndSet(db, kind, key, old_value, new_value)
        IN
        /\ db' = r.db
        /\ last_call' = [NoCall EXCEPT !.op = "compare_and_set", !.kind = kind,
                                       !.key = key, !.old = old_value,
                                       !.new = new_value, !.ret = r.ret]
        /\ UNCHANGED <<ns_pc, state, opaque_state, converted_back_state, pw_vars>>
        /\ UNCHANGED <<engine_vars, hb_vars, dp_vars>>

\* lines 131-136: what Api::local_storage_get answers; LOCAL is
\* unavailable_yet: Option::default()
StorageGet(d, kind, key) == IF kind = "PERSISTENT" THEN DbGet(d, key) ELSE None

\* Api::local_storage_get
local_storage_get ==
    \E kind \in Kinds, key \in Keys :
        /\ last_call' = [NoCall EXCEPT !.op = "get", !.kind = kind, !.key = key,
                                       !.got = StorageGet(db, kind, key)]
        /\ UNCHANGED db
        /\ UNCHANGED <<ns_pc, state, opaque_state, converted_back_state, pw_vars>>
        /\ UNCHANGED <<engine_vars, hb_vars, dp_vars>>

DbNext ==
    \/ local_storage_set
    \/ local_storage_clear
    \/ local_storage_compare_and_set
    \/ local_storage_get

DbSpec == DbInit /\ [][DbNext]_vars

(***************************************************************************)
(* The offchain api: pollable_wait.  The call blocks its thread in         *)
(* block_on; the HTTP worker sends ready ids and time passes meanwhile.   *)
(***************************************************************************)
PwInit ==
    /\ EngineOff
    /\ HbOff
    /\ NsOff
    /\ DbOff
    /\ DpOff
    /\ pw_pc = "Idle"
    /\ ids = <<>>
    /\ deadline = NoDeadline
    /\ http_ready_ids = <<>>
    /\ n_ready = 0
    /\ discarded = <<>>
    /\ pw_ret = NoPollable

\* the HTTP worker reports a request ready
HttpReady ==
    /\ pw_pc \in {"Idle", "Waiting"}
    /\ n_ready < MaxReady
    /\ \E x \in HttpRequestIds : http_ready_ids' = Append(http_ready_ids, x)
    /\ n_ready' = n_ready + 1
    /\ UNCHANGED <<pw_pc, ids, deadline, discarded, pw_ret>>
    /\ UNCHANGED <<ns_pc, state, opaque_state, converted_back_state, db, last_call>>
    /\ UNCHANGED <<engine_vars, hb_vars, dp_vars>>

\* line 195: ids.iter().all(|x| x.kind() == PollableKind::Http)
AllHttp(the_ids) == \A i \in 1..Len(the_ids) : the_ids[i].kind = "Http"

\* lines 189-199: pollable_wait is called; the assertion, the deadline future
pollable_wait ==
    /\ pw_pc = "Idle"
    /\ \E the_ids \in IdSlices :
       \E d \in {NoDeadline} \cup {Deadline(n) : n \in 0..MaxDeadline} :
          /\ ids' = the_ids
          /\ deadline' = d
          /\ pw_pc' = IF AllHttp(the_ids) THEN "Waiting" ELSE "Panicked"
    /\ discarded' = <<>>
    /\ UNCHANGED <<http_ready_ids, n_ready, pw_ret>>
    /\ UNCHANGED <<ns_pc, state, opaque_state, converted_back_state, db, last_call>>
    /\ UNCHANGED <<engine_vars, hb_vars, dp_vars>>

\* lines 203-206: the predicate of skip_while for the ready id x
SkipPredicate(x) ==
    \E i \in 1..Len(ids) : ids[i] # PollableIdFrom(x)

\* lines 201-207: skip_while(..).into_future() polled on the ids received:
\* the ids are skipped while the predicate holds; the first id it does not
\* hold for is the head
RECURSIVE SkipWhile(_, _)
SkipWhile(received, skipped) ==
    IF received = <<>>
    THEN [found |-> FALSE, head |-> 0, skipped |-> skipped, rest |-> <<>>]
    ELSE IF SkipPredicate(Head(received))
    THEN SkipWhile(Tail(received), Append(skipped, Head(received)))
    ELSE [found |-> TRUE, head |-> Head(received), skipped |-> skipped,
          rest |-> Tail(received)]

\* the deadline future is ready
DeadlineReached == deadline.some /\ deadline.left = 0

\* lines 209-216: block_on polls select(simplistic_stream, deadline): the
\* stream first, then the deadline
BlockOn ==
    /\ pw_pc = "Waiting"
    /\ http_ready_ids # <<>> \/ DeadlineReached
    /\ LET r == SkipWhile(http_ready_ids, <<>>) IN
        /\ http_ready_ids' = r.rest
        /\ discarded' = discarded \o r.skipped
        /\ IF r.found
           THEN \* Either::Left: Some(head.into())
                /\ pw_ret' = SomePollable(PollableIdFrom(r.head))
                /\ pw_pc' = "Returned"
           ELSE IF DeadlineReached
           THEN \* Either::Right: None
                /\ pw_ret' = NoPollable
                /\ pw_pc' = "Returned"
           ELSE UNCHANGED <<pw_ret, pw_pc>>
    /\ UNCHANGED <<ids, deadline, n_ready>>
    /\ UNCHANGED <<ns_pc, state, opaque_state, converted_back_state, db, last_call>>
    /\ UNCHANGED <<engine_vars, hb_vars, dp_vars>>

\* a tick of the clock while the call blocks; a poll that is due happens
\* before the next tick
PwTick ==
    /\ pw_pc = "Waiting"
    /\ http_ready_ids = <<>>
    /\ deadline.some
    /\ deadline.left > 0
    /\ deadline' = Deadline(deadline.left - 1)
    /\ UNCHANGED <<pw_pc, ids, http_ready_ids, n_ready, discarded, pw_ret>>
    /\ UNCHANGED <<ns_pc, state, opaque_state, converted_back_state, db, last_call>>
    /\ UNCHANGED <<engine_vars, hb_vars, dp_vars>>

PwNext ==
    \/ HttpReady
    \/ pollable_wait
    \/ BlockOn
    \/ PwTick

PwSpec == PwInit /\ [][PwNext]_vars

(***************************************************************************)
(* Properties of the engine loop.                                          *)
(***************************************************************************)
Processing == pc \in {"Seal", "Init", "Propose", "Send", "Finalize"}

\* how many times send_result ran for command i
Count(i) == Cardinality({j \in 1..Len(outcomes) : outcomes[j] = i})

\* C1: at most one command is being processed at any time; a command is
\* taken only when every command taken before it has had its result handed
\* to send_result, so no two block builds are in flight together.
C1_OneCommandAtATime ==
    /\ Cardinality(inflight) <= 1
    /\ \A i \in inflight : Len(outcomes) = i - 1
    /\ pc = "Idle" => inflight = {}
    /\ (Processing /\ trace.proposed) => inflight = {cur.id}

\* a second block is being built after the first command imported its block
C1_Witness == pc = "Propose" /\ cur.id = 2 /\ Len(blocks) = 2 /\ Len(outcomes) = 1

\* C2: the i-th result handed over (delivered, discarded or logged) is the
\* result of the i-th command the source yielded: no reordering, no skipped
\* command.
C2_ArrivalOrder ==
    /\ \A i \in 1..Len(outcomes) : outcomes[i] = i
    /\ Processing => (cur.id = n_yielded /\ Len(outcomes) = n_yielded - 1)
    /\ pc \in {"Idle", "Done"} => Len(outcomes) = n_yielded

\* two commands were answered: a seal, then the finalize of its block
C2_Witness ==
    /\ Len(outcomes) = 2
    /\ pc = "Idle"
    /\ finalized = 2
    /\ Len(blocks) = 2

\* C3: a failed command never ends the loop: every error of a seal or a
\* finalize becomes the result to send, sending it leads back to Idle with
\* the future still pending, the loop then accepts the next command, and the
\* loop is Done only when the source is exhausted.
C3_FailureKeepsLoop ==
    /\ [](pc = "Done" => (closed /\ inflight = {} /\ ret = "Ok"))
    /\ [](pc = "Idle" /\ ~closed /\ n_yielded < MaxCmds => ENABLED NextCommand)
    /\ [][(~result'.ok /\ result' # result /\ result'.kind # "NoResult")
            => pc' = "Send"]_vars
    /\ [][(pc = "Send" /\ ~result.ok /\ pc' \notin {"Send", "Dropped"})
            => /\ pc' = "Idle"
               /\ ret' = "Pending"
               /\ outcomes' = Append(outcomes, cur.id)
               /\ last_outcome' = [id |-> cur.id, via |-> SendResult, ok |-> FALSE]]_vars

\* the first command failed and the loop waits for the next command, the
\* future pending
C3_Witness ==
    /\ pc = "Idle"
    /\ ~closed
    /\ ret = "Pending"
    /\ outcomes = <<1>>
    /\ last_outcome.id = 1
    /\ ~last_outcome.ok

\* C4: once the command source is exhausted the engine future completes
\* with Ok(()), every command the source yielded having been answered
\* (unless the future itself is dropped).
C4_CompletesOk ==
    closed ~> ((pc = "Done" /\ ret = "Ok" /\ Len(outcomes) = n_yielded)
               \/ pc = "Dropped")

\* the future completed after having answered two commands
C4_Witness == pc = "Done" /\ ret = "Ok" /\ closed /\ Len(outcomes) = 2

\* C5 as stated: every consumed command that is no longer being processed
\* has exactly one outcome, and none was lost on the way to its channel.
C5_Original ==
    \A i \in 1..n_yielded :
        i \notin inflight =>
            /\ Count(i) = 1
            /\ last_outcome.id = i => last_outcome.via # "Discarded"

\* C5, amended: send_result runs exactly once for every consumed command
\* (never twice, and never zero times unless the engine is dropped while the
\* command is in flight); the result reaches the channel exactly when the
\* command carries a sender whose receiver is still held, and is discarded
\* when the caller dropped the receiver.
C5_ExactlyOneOutcome ==
    /\ [](\A i \in 1..n_yielded : Count(i) = IF i \in inflight THEN 0 ELSE 1)
    /\ [][outcomes' # outcomes =>
            /\ pc = "Send"
            /\ result.kind # "NoResult"
            /\ outcomes' = Append(outcomes, cur.id)
            /\ last_outcome' =
                  [id |-> cur.id,
                   via |-> IF ~cur.has_sender THEN "Logged"
                           ELSE IF rx_alive THEN "Sent" ELSE "Discarded",
                   ok |-> result.ok]]_vars

\* the second command's result was discarded: its receiver was dropped
C5_Witness ==
    /\ outcomes = <<1, 2>>
    /\ last_outcome.id = 2
    /\ last_outcome.via = "Discarded"

\* C6: a seal with create_empty=false that finds no ready transaction at
\* the pool check ends with EmptyTransactionPool; no proposer was
\* initialized or invoked, no import parameters were built, and no block was
\* imported for it.
C6_EmptyPoolNoImport ==
    (cur.kind = "SealNewBlock" /\ trace.pool_at_check = 0 /\ ~cur.create_empty) =>
        /\ pc = "Send"
        /\ result = Err("EmptyTransactionPool", "")
        /\ ~trace.init_called
        /\ ~trace.proposed
        /\ ~trace.import_called
        /\ params = NoParams
        /\ Len(blocks) = trace.n_blocks

\* such a seal is about to be answered, after an earlier block was imported
C6_Witness ==
    /\ pc = "Send"
    /\ cur.kind = "SealNewBlock"
    /\ trace.pool_at_check = 0
    /\ ~cur.create_empty
    /\ Len(blocks) = 2

\* the command names a parent hash the client has no header for
UnknownParent ==
    /\ cur.kind = "SealNewBlock"
    /\ cur.parent_hash # NoHash
    /\ ~HeaderKnown(cur.parent_hash)

\* C7 as stated: a seal naming an unknown parent ends with BlockNotFound,
\* whatever the pool holds and whatever create_empty is.
C7_Original ==
    (pc = "Send" /\ UnknownParent /\ trace.lookup # "Err") =>
        /\ result = Err("BlockNotFound", "")
        /\ ~trace.init_called
        /\ ~trace.proposed

\* C7, amended: for a seal naming an unknown parent the proposer is never
\* initialized or invoked; the result is BlockNotFound when the pool check
\* passes (a ready transaction, or create_empty) and the lookup answers None,
\* and EmptyTransactionPool when the pool check, which comes first, fails.
C7_UnknownParent ==
    UnknownParent =>
        /\ pc \in {"Seal", "Send"}
        /\ ~trace.init_called
        /\ ~trace.proposed
        /\ (pc = "Send" /\ trace.lookup # "Err") =>
              result = IF trace.pool_at_check = 0 /\ ~cur.create_empty
                       THEN Err("EmptyTransactionPool", "")
                       ELSE Err("BlockNotFound", "")

\* BlockNotFound with an empty pool (create_empty) and with a ready
\* transaction
C7_Witness ==
    /\ pc = "Send"
    /\ UnknownParent
    /\ result = Err("BlockNotFound", "")
    /\ trace.lookup = "None"
    /\ trace.pool_at_check = 0

\* C8 as stated: no two seals of one engine that target the same parent
\* both import a block (at the same height).
C8_Original ==
    \A i, j \in 2..Len(blocks) :
        i # j => blocks[i].parent # blocks[j].parent

\* C8, amended: no two seals that both build on the best header
\* (parent_hash = None) import blocks on the same parent, the import making
\* a higher block the new best; seals naming the same explicit parent_hash
\* can both import a block at the same height (a fork).
C8_BestParentNoFork ==
    \A i, j \in 2..Len(blocks) :
        (i # j /\ blocks[i].by_best /\ blocks[j].by_best)
            => blocks[i].parent # blocks[j].parent

\* two seals on the best header both imported a block
C8_Witness ==
    /\ Len(blocks) = 3
    /\ blocks[2].by_best
    /\ blocks[3].by_best

(***************************************************************************)
(* Properties of the heartbeat stream.                                     *)
(***************************************************************************)
\* the heartbeats emitted so far
Synthetic == Cardinality({i \in 1..Len(emitted) : emitted[i].synthetic})

\* the real commands emitted so far, in order
RealEmitted == SelectSeq(emitted, LAMBDA e : ~e.synthetic)

\* the inner stream is open and has yielded nothing for `timeout` ticks
\* since the last emission, the construction or its last command
QuietForTimeout ==
    /\ task \in {"Busy", "Polling", "Parked"}
    /\ ~inner_closed
    /\ pool_stream = <<>>
    /\ quiet >= opts.timeout
    /\ Len(emitted) < MaxEmit

\* C9: whenever the inner stream is open and has been quiet for `timeout`,
\* the stream eventually emits (a heartbeat, the inner stream having nothing
\* to yield) unless the inner stream yields a command or ends first; also
\* from the state a debounce leaves.  quiet restarts at 0 only at an
\* emission and at a yield of the inner stream.
C9_HeartbeatLiveness ==
    QuietForTimeout ~> (quiet < opts.timeout \/ inner_closed)

\* C10: a command the inner stream yielded is not lost and not replaced:
\* the real commands emitted are the commands yielded, in order, except for
\* at most one command that is held back, and only while less than
\* min_blocktime has passed since the last emission.
C10_DebounceKeepsCommand ==
    /\ Len(RealEmitted) <= Len(taken)
    /\ \A i \in 1..Len(RealEmitted) : RealEmitted[i].cmd = taken[i]
    /\ Len(taken) - Len(RealEmitted) <= 1
    /\ Len(taken) > Len(RealEmitted) => (TooEarly \/ task = "Polling")

\* C11: HeartbeatStream::new panics exactly when min_blocktime > timeout,
\* and a stream that panicked at construction never emits and is never
\* polled; with min_blocktime <= timeout (equality included) the stream is
\* constructed with last_heartbeat unset and the timer armed for timeout.
C11_NewChecksOptions ==
    /\ [][task = "New" =>
            IF opts.min_blocktime > opts.timeout
            THEN task' = "Panicked"
            ELSE /\ task' = "Busy"
                 /\ last_heartbeat' = NoInstant
                 /\ delay_left' = opts.timeout]_vars
    /\ [](task = "Panicked" => (emitted = <<>> /\ taken = <<>>))
    /\ [](opts.min_blocktime > opts.timeout => task \in {"New", "Panicked"})
    /\ [][task = "Panicked" => task' = "Panicked"]_vars

\* the construction panicked, min_blocktime being one tick above timeout
C11_Witness ==
    /\ task = "Panicked"
    /\ opts.min_blocktime = opts.timeout + 1

\* C12: once poll_next has answered Ready(None), the inner stream having
\* ended, every later poll answers Ready(None) again and no command, real
\* or synthetic, is emitted, whatever the timer; no command is emitted
\* either from the moment the inner stream is closed and drained.
C12_NoEmissionAfterEnd ==
    /\ [][n_ended >= 1 => (emitted' = emitted /\ task' \in {"Ended", "Polling"})]_vars
    /\ [][(n_ended >= 1 /\ task = "Polling") => (task' = "Ended" /\ n_ended' = n_ended + 1)]_vars
    /\ [][(inner_closed /\ pool_stream = <<>>) => emitted' = emitted]_vars
    /\ [](task = "Ended" => (inner_closed /\ pool_stream = <<>> /\ n_ended >= 1))

\* the stream was polled again after its end, the timer having elapsed
C12_Witness ==
    /\ task = "Ended"
    /\ n_ended = 2
    /\ delay_left = 0
    /\ emitted # <<>>

\* C13: every emission, real or synthetic, arms the timer for a full
\* timeout and sets last_heartbeat to the instant of the emission; a poll
\* that emits nothing leaves last_heartbeat unchanged.
C13_EmissionRearms ==
    /\ [][emitted' # emitted =>
            /\ task = "Polling"
            /\ Len(emitted') = Len(emitted) + 1
            /\ delay_left' = opts.timeout
            /\ last_heartbeat' = Elapsed(0)]_vars
    /\ [][(task = "Polling" /\ emitted' = emitted) =>
            last_heartbeat' = last_heartbeat]_vars

\* a heartbeat was emitted after a real command, with min_blocktime shorter
\* than timeout
C13_Witness ==
    /\ Len(emitted) = 2
    /\ ~emitted[1].synthetic
    /\ emitted[2].synthetic
    /\ last_heartbeat = Elapsed(0)
    /\ delay_left = opts.timeout
    /\ opts.min_blocktime < opts.timeout

\* C21: a heartbeat is emitted only when the system was idle: at every
\* synthetic emission at least `timeout` has passed since the previous
\* emission (or the construction), and the inner stream has yielded no
\* command in that time.
C21_SyntheticOnlyWhenIdle ==
    [][Synthetic' > Synthetic =>
          /\ gap >= opts.timeout
          /\ quiet >= opts.timeout]_vars

\* C22: an emission that is not the first comes at least min_blocktime
\* after the emission before it, whether the two are real or synthetic.
C22_MinBlocktimeApart ==
    /\ [][(emitted' # emitted /\ emitted # <<>>) => gap >= opts.min_blocktime]_vars
    /\ [](Len(emitted) >= 2 => last_gap >= opts.min_blocktime)

\* a real command was emitted exactly min_blocktime after a heartbeat, and
\* earlier than timeout
C22_Witness ==
    /\ Len(emitted) = 2
    /\ emitted[1].synthetic
    /\ ~emitted[2].synthetic
    /\ opts.min_blocktime >= 1
    /\ opts.min_blocktime < opts.timeout
    /\ last_gap = opts.min_blocktime

\* s is t with some elements left out: same order, each at most once
RECURSIVE IsSubsequence(_, _)
IsSubsequence(s, t) ==
    IF s = <<>> THEN TRUE
    ELSE IF t = <<>> THEN FALSE
    ELSE IF Head(s) = Head(t) THEN IsSubsequence(Tail(s), Tail(t))
    ELSE IsSubsequence(s, Tail(t))

\* the emitted commands that carry a response sender, in order
EmittedWithSender ==
    SelectSeq([i \in 1..Len(emitted) |-> emitted[i].cmd], LAMBDA c : c.has_sender)

\* C23: the emitted commands that carry a sender are commands the inner
\* stream yielded, in its order and each at most once; a command the
\* stream emits without having taken it from the inner stream is a
\* SealNewBlock with create_empty, no parent hash and no sender.
C23_NoDuplicateNoReorder ==
    /\ [](IsSubsequence(EmittedWithSender, taken))
    /\ [](\A i \in 1..Len(taken) : \A j \in 1..Len(taken) :
             taken[i] = taken[j] => i = j)
    /\ [](\A i \in 1..Len(emitted) :
             emitted[i].synthetic =>
                 /\ emitted[i].cmd.kind = "SealNewBlock"
                 /\ emitted[i].cmd.create_empty
                 /\ emitted[i].cmd.parent_hash = NoHash
                 /\ ~emitted[i].cmd.has_sender)
    /\ [][emitted' # emitted =>
            \/ /\ pool_stream # <<>>
               /\ emitted' = Append(emitted, [cmd |-> Head(pool_stream), synthetic |-> FALSE])
               /\ pool_stream' = Tail(pool_stream)
            \/ /\ pool_stream = <<>>
               /\ emitted' = Append(emitted, [cmd |-> Heartbeat, synthetic |-> TRUE])
               /\ pool_stream' = pool_stream]_vars

\* the inner stream yielded two commands; the first was emitted, the second
\* was held back and is gone, and a heartbeat was emitted after it
C23_Witness ==
    /\ Len(taken) = 2
    /\ Len(emitted) = 2
    /\ emitted[1] = [cmd |-> taken[1], synthetic |-> FALSE]
    /\ emitted[2].synthetic
    /\ EmittedWithSender = <<taken[1]>>

(***************************************************************************)
(* Properties of the offchain api.                                         *)
(***************************************************************************)
\* C14: for every NetworkState s, NetworkState::try_from(
\* OpaqueNetworkState::from(s)) succeeds and equals s: the same peer id and
\* the same external addresses, in the same order and number.
C14_NetworkStateRoundTrip ==
    ns_pc = "Back" =>
        /\ converted_back_state.ok
        /\ converted_back_state.val = state
        /\ Len(converted_back_state.val.external_addresses)
              = Len(state.external_addresses)
        /\ \A i \in 1..Len(state.external_addresses) :
              converted_back_state.val.external_addresses[i]
                 = state.external_addresses[i]

\* a state of an ip4 and a zero-compressed ip6 address was converted back
C14_Witness ==
    /\ ns_pc = "Back"
    /\ Len(state.external_addresses) = 2
    /\ state.external_addresses[1][1].proto = "ip4"
    /\ state.external_addresses[2] = <<[proto |-> "ip6", arg |-> <<1, 0, 0>>]>>
    /\ converted_back_state.ok

\* C15: for PERSISTENT storage local_storage_compare_and_set(key, old, new)
\* returns true exactly when the value stored under key equals old (None:
\* the key is absent); then local_storage_get(key) answers Some(new);
\* otherwise the value under key is unchanged; the values under every other
\* key never change.
C15_CompareAndSet ==
    [][(last_call'.op = "compare_and_set" /\ last_call'.kind = "PERSISTENT") =>
        LET c == last_call' IN
        /\ c.ret = (StorageGet(db, "PERSISTENT", c.key) = c.old)
        /\ c.ret => StorageGet(db', "PERSISTENT", c.key) = Some(c.new)
        /\ ~c.ret => StorageGet(db', "PERSISTENT", c.key)
                        = StorageGet(db, "PERSISTENT", c.key)
        /\ \A k \in Keys \ {c.key} : db'[k] = db[k]]_vars

\* a compare-and-set with old = None failed on a key that holds a value,
\* another key holding a value too
C15_Witness ==
    /\ last_call.op = "compare_and_set"
    /\ last_call.kind = "PERSISTENT"
    /\ last_call.old = None
    /\ ~last_call.ret
    /\ \A k \in Keys : db[k].some

(***************************************************************************)
(* Properties of the seal: the proposal, the epoch, the slot claim, the    *)
(* import.                                                                 *)
(***************************************************************************)
\* C16: when the proposed block holds exactly as many extrinsics as there
\* are inherents, a seal with create_empty=false ends with
\* EmptyTransactionPool and the block is not submitted to the block import,
\* and a seal with create_empty=true submits the block.
C16_EmptyProposal ==
    (cur.kind = "SealNewBlock" /\ trace.extrinsics = InherentsLen) =>
        /\ pc = "Send"
        /\ IF cur.create_empty
           THEN /\ trace.import_called
                /\ params.built
                /\ trace.answer # "NotCalled"
           ELSE /\ result = Err("EmptyTransactionPool", "")
                /\ ~trace.import_called
                /\ params = NoParams
                /\ Len(blocks) = trace.n_blocks

\* the pool held a transaction at the pool check, the proposal holds none
C16_Witness ==
    /\ pc = "Send"
    /\ ~cur.create_empty
    /\ trace.pool_at_check > 0
    /\ trace.extrinsics = InherentsLen
    /\ result = Err("EmptyTransactionPool", "")

\* C17: when the epoch lookup answers None the seal, create_digest and
\* append_block_import fail with InvalidAuthoritiesSet; no slot claim is
\* attempted, nothing is proposed or imported for the command, and the
\* import parameters given to append_block_import are left as they were.
C17_NoEpoch ==
    /\ [](trace.epoch = "None" =>
            /\ pc = "Send"
            /\ result = Err("ConsensusError", "InvalidAuthoritiesSet")
            /\ trace.claim = "NotTried"
            /\ ~trace.proposed
            /\ ~trace.import_called
            /\ params = NoParams
            /\ Len(blocks) = trace.n_blocks)
    /\ [](dp_last.epoch = "None" =>
            /\ dp_last.result = Err("ConsensusError", "InvalidAuthoritiesSet")
            /\ dp_last.claim = "NotTried")
    /\ [][dp_last'.epoch = "None" => dp_params' = dp_params]_vars
    /\ [](dp_last.op # "None" =>
            (dp_last.epoch = "None" <=> (dp_inherents /\ dp_epoch = "None")))

\* append_block_import failed for want of an epoch
C17_ProviderWitness ==
    /\ dp_last.op = "append_block_import"
    /\ dp_last.epoch = "None"
    /\ dp_epoch = "None"
    /\ dp_params.intermediates # {}

\* the seal of the second command failed for want of an epoch
C17_Witness ==
    /\ pc = "Send"
    /\ cur.id = 2
    /\ trace.epoch = "None"
    /\ Len(blocks) = 2

\* C18 as stated: when the epoch is resolved and no key can claim the slot,
\* the seal and create_digest fail with an error whose kind differs from the
\* kind of the wrapped proposer error and of the wrapped import error, and
\* neither propose nor the block import is invoked.
C18_SlotClaimDistinct ==
    /\ (pc = "Send" /\ trace.claim = "None") =>
          /\ ~result.ok
          /\ result.kind \notin {ProposeError.kind, ImportError.kind}
          /\ ~trace.proposed
          /\ ~trace.import_called
    /\ dp_last.claim = "None" =>
          /\ ~dp_last.result.ok
          /\ dp_last.result.kind \notin {ProposeError.kind, ImportError.kind}

\* C19 as stated: the import parameters of every block submitted to the
\* block import hold, under INTERMEDIATE_KEY, the epoch descriptor resolved
\* for the block.
C19_ImportCarriesEpoch ==
    trace.import_called =>
        \E i \in params.intermediates :
            i.key = INTERMEDIATE_KEY /\ i.value \in EpochDescriptors

\* C20: a seal is answered CreatedBlock exactly when the block import
\* answered Imported for the block submitted; the hash is then the hash of
\* the header submitted, the aux the aux of the import, and the block is in
\* the chain; every other answer of the import, and an import error, is an
\* error result.
C20_CreatedIffImported ==
    (pc = "Send" /\ cur.kind = "SealNewBlock") =>
        /\ result.ok <=> trace.answer = "Imported"
        /\ result.ok =>
              /\ result = CreatedBlock(params.header_hash, trace.aux)
              /\ params.built
              /\ HeaderKnown(result.hash)
              /\ blocks[result.hash].parent = params.parent
              /\ Len(blocks) = trace.n_blocks + 1
        /\ trace.answer = "Err" => result = ImportError
        /\ trace.answer \in OtherImportResults => result = Err("Other", trace.answer)
        /\ ~result.ok => Len(blocks) = trace.n_blocks

\* a seal on an explicit parent was imported without becoming the best block
C20_Witness ==
    /\ pc = "Send"
    /\ cur.kind = "SealNewBlock"
    /\ result.ok
    /\ result.hash = 3
    /\ ~result.aux
    /\ params.parent = 1

\* the entries of params.intermediates under INTERMEDIATE_KEY, and the others
UnderKey(p) == {i \in p.intermediates : i.key = INTERMEDIATE_KEY}
OtherKeys(p) == {i \in p.intermediates : i.key # INTERMEDIATE_KEY}

\* C24: append_block_import changes params only when it succeeds.  When it
\* returns an error (no slot in the inherents, epoch lookup error, no epoch
\* descriptor) params is unchanged.  When it returns Ok, params holds
\* exactly one entry under INTERMEDIATE_KEY, the epoch descriptor found,
\* and every other entry and every other field of params is as it was.
C24_AppendFrame ==
    [][dp_last'.op = "append_block_import" =>
          IF dp_last'.result.ok
          THEN /\ dp_inherents
               /\ dp_epoch \in EpochDescriptors
               /\ dp_last'.result = UnitOk
               /\ UnderKey(dp_params') =
                      {[key |-> INTERMEDIATE_KEY, value |-> dp_epoch]}
               /\ OtherKeys(dp_params') = OtherKeys(dp_params)
               /\ [dp_params' EXCEPT !.intermediates = {}] =
                      [dp_params EXCEPT !.intermediates = {}]
          ELSE /\ dp_params' = dp_params
               /\ \/ ~dp_inherents /\ dp_last'.result = InherentsError
                  \/ dp_inherents /\ dp_epoch = "Err"
                        /\ dp_last'.result = EpochFetchError
                  \/ dp_inherents /\ dp_epoch = "None"
                        /\ dp_last'.result = NoEpochError]_vars

\* append_block_import returned Ok on params that held another entry: the
\* entry is kept and the epoch descriptor stands next to it
C24_Witness ==
    /\ dp_last.op = "append_block_import"
    /\ dp_last.result = UnitOk
    /\ dp_epoch = "Signaled"
    /\ dp_params.intermediates =
          {[key |-> "other", value |-> "x"],
           [key |-> INTERMEDIATE_KEY, value |-> "Signaled"]}

\* append_block_import returned an error on params that held an entry
\* under INTERMEDIATE_KEY: the entry is as it was
C24_ErrorWitness ==
    /\ dp_last.op = "append_block_import"
    /\ dp_last.result = EpochFetchError
    /\ dp_params.intermediates = {[key |-> INTERMEDIATE_KEY, value |-> "stale"]}

(***************************************************************************)
(* Properties of pollable_wait.                                            *)
(***************************************************************************)
\* the pollable id p is one of `ids`
InIds(p) == \E i \in 1..Len(ids) : ids[i] = p

\* C25: pollable_wait returns the first id received from the ready-id
\* stream that is one of `ids`, the ids received before it, none of them
\* one of `ids`, being discarded; Some(id) is returned only for an id of
\* `ids`, whatever the length of `ids`, and None only when the deadline
\* has passed and no id of `ids` was received before.
C25_PollableWait ==
    pw_pc = "Returned" =>
        /\ \A i \in 1..Len(discarded) : ~InIds(PollableIdFrom(discarded[i]))
        /\ pw_ret.some => InIds(pw_ret.val)
        /\ ~pw_ret.some => DeadlineReached

\* what holds: when `ids` names one id (once or more), the call returns as
\* C25 says
PollableWaitOneId ==
    (pw_pc = "Returned" /\ ids # <<>> /\ \A i \in 1..Len(ids) : ids[i] = ids[1]) =>
        /\ \A i \in 1..Len(discarded) : ~InIds(PollableIdFrom(discarded[i]))
        /\ pw_ret.some => InIds(pw_ret.val)
        /\ ~pw_ret.some => DeadlineReached

\* two distinct ids were given, one of them was ready, and the call
\* returned None at the deadline
PollableWaitTwoIds ==
    /\ pw_pc = "Returned"
    /\ Len(ids) = 2
    /\ ids[1] # ids[2]
    /\ discarded = <<ids[1].id>>
    /\ pw_ret = NoPollable

\* no id was given and the call returned the first ready id
PollableWaitNoIds ==
    /\ pw_pc = "Returned"
    /\ ids = <<>>
    /\ pw_ret.some

====
